---- MODULE Spec2Model ----
EXTENDS Integers, Sequences, FiniteSets, TLC

(***************************************************************************)
(* Model of the booking cluster: booking-node/raft/raft.py (RaftNode),     *)
(* raft/log.py (Log), raft/state_machine.py (StateMachine) and the         *)
(* BookSeat and AddShow paths of booking/booking_service.py and            *)
(* booking/seat_manager.py, with the charge of payment-service.            *)
(* One action is one run of a handler between two suspension points of     *)
(* the asyncio event loop of a node.                                       *)
(***************************************************************************)

\* The cluster of the tests: three booking nodes.
Node == {1, 2, 3}
User == {"u1", "u2"}
ShowId == {"s1", "s2"}

\* ADMIN_ID, the user_id the auth service gives the administrator's sessions
ADMIN_ID == "admin"

\* the card numbers of the calls: one the payment service accepts, and the one
\* it refuses
Card == {"4242", "9999"}

\* Bounds of the model.
MaxElections == 2
MaxQuietElections == 3
MaxReturnElections == 3
MaxLog == 2
MaxMsgs == 2
MaxCalls == 2
MaxCrash == 1
TotalSeats == 2
MaxCmds == 3
MaxListSeats == 5
PriceCents == 100

Call == 1..MaxCalls
Seat == 1..TotalSeats

VARIABLES
    alive,        \* alive[n]: the process of node n runs
    current_term, \* RaftNode.current_term
    voted_for,    \* RaftNode.voted_for (0 is None)
    log,          \* RaftNode.log: Log._entries, a map index -> entry
    commit_index, \* RaftNode.commit_index
    last_applied, \* RaftNode.last_applied
    role,         \* RaftNode.role
    next_index,   \* RaftNode.next_index
    match_index,  \* RaftNode.match_index
    shows,        \* RaftNode.state_machine.shows
    election,     \* the RequestVote request of the election a node awaits in gather
    rv,           \* per candidate and peer: the state of the RequestVote RPC
    msgs,         \* AppendEntries requests and responses in flight
    calls,        \* the BookSeat calls and where their handlers stand
    elected,      \* history: the (term, node) pairs that became leader
    voted         \* history: the (voter, term, candidate) votes recorded

vars == <<alive, current_term, voted_for, log, commit_index, last_applied, role,
          next_index, match_index, shows, election, rv, msgs, calls, elected, voted>>

Max(S) == CHOOSE x \in S : \A y \in S : y <= x
Min2(a, b) == IF a <= b THEN a ELSE b
Max2(a, b) == IF a >= b THEN a ELSE b

\* RaftNode.majority without the candidate's own node: half of the peers
majority_of_peers == (Cardinality(Node) - 1) \div 2

\* RaftNode.majority asking for every node of the cluster
majority_unanimous == Cardinality(Node)

\* RaftNode.majority
majority == ((Cardinality(Node) - 1 + 1) \div 2) + 1

Peers(n) == Node \ {n}

\* an RPC from a to b can succeed: both processes run
Connected(a, b) == alive[a] /\ alive[b]

\* the elections started so far
Elections == {v \in voted : v[1] = v[3]}

----------------------------------------------------------------------------
\* raft/log.py

EmptyLog == [i \in {} |-> [term |-> 0, cmd |-> 0]]

\* Log.last_index: the largest index ever appended
last_index(l) == IF DOMAIN l = {} THEN 0 ELSE Max(DOMAIN l)

\* Log.get(index) is not None
HasEntry(l, i) == i \in DOMAIN l

\* the term of Log.get(index), 0 when there is no entry
TermAt(l, i) == IF HasEntry(l, i) THEN l[i].term ELSE 0

\* Log.append
LogAppend(l, i, e) == [j \in DOMAIN l \cup {i} |-> IF j = i THEN e ELSE l[j]]

\* Log.entries_from, as the LogEntry messages _send_append_entries builds
entries_from(l, i) ==
    [k \in 1..(last_index(l) - i + 1) |->
        [index |-> i + k - 1, term |-> l[i + k - 1].term, cmd |-> l[i + k - 1].cmd]]

----------------------------------------------------------------------------
\* raft/state_machine.py

NoRecord == [present |-> FALSE, reserved |-> FALSE, user_id |-> "none", booking_id |-> 0]

\* a show_id that is not a key of StateMachine.shows
\* (seats holds the records under int keys, loaded those under the str keys
\* json.loads gives every key of the snapshot file)
NoShow == [exists |-> FALSE, total_seats |-> 0, price_cents |-> 0,
           seats |-> [s \in Seat |-> NoRecord], loaded |-> [s \in Seat |-> NoRecord]]

\* the snapshot file the nodes load at construction: show s1, nothing reserved
load_state == [sh \in ShowId |->
                 IF sh = "s1"
                 THEN [exists |-> TRUE, total_seats |-> TotalSeats, price_cents |-> PriceCents,
                       seats |-> [s \in Seat |-> NoRecord],
                       loaded |-> [s \in Seat |-> NoRecord]]
                 ELSE NoShow]

\* json.dump(self.shows) of StateMachine._save_state: the file; every key of a
\* JSON object is a string, so the int key s and the str key of the same digits
\* are written under one name, the int key last (it was inserted last)
json_dump(st) ==
    [sh \in ShowId |->
        [exists |-> st[sh].exists, total_seats |-> st[sh].total_seats,
         price_cents |-> st[sh].price_cents,
         object |-> [s \in Seat |-> IF st[sh].seats[s].present THEN st[sh].seats[s]
                                    ELSE st[sh].loaded[s]]]]

\* json.loads(content) of StateMachine._load_state: the last value of a repeated
\* name is kept, and every key of the seat map is a str
json_loads(file) ==
    [sh \in ShowId |->
        [exists |-> file[sh].exists, total_seats |-> file[sh].total_seats,
         price_cents |-> file[sh].price_cents,
         seats |-> [s \in Seat |-> NoRecord], loaded |-> file[sh].object]]

ReserveCmd(sh, s, u, b) ==
    [type |-> "reserve", show_id |-> sh, seat_id |-> s, user_id |-> u, booking_id |-> b]

\* StateMachine._reserve_seat, overwriting a reserved seat
reserve_seat_overwrite(st, sh, s, u, b) ==
    IF ~st[sh].exists THEN st
    ELSE IF s <= 0 \/ s > st[sh].total_seats THEN st
    ELSE [st EXCEPT ![sh].seats[s] =
            [present |-> TRUE, reserved |-> TRUE, user_id |-> u, booking_id |-> b]]

\* StateMachine._reserve_seat
reserve_seat(st, sh, s, u, b) ==
    IF ~st[sh].exists THEN st
    ELSE IF s <= 0 \/ s > st[sh].total_seats THEN st
    ELSE IF st[sh].seats[s].present /\ st[sh].seats[s].reserved THEN st
    ELSE [st EXCEPT ![sh].seats[s] =
            [present |-> TRUE, reserved |-> TRUE, user_id |-> u, booking_id |-> b]]

AddShowCmd(sh, total, price) ==
    [type |-> "add_show", show_id |-> sh, total_seats |-> total, price_cents |-> price]

\* StateMachine._add_show, giving an existing show an empty seat map again
add_show_reset(st, sh, total, price) ==
    IF total = 0 THEN st
    ELSE [st EXCEPT ![sh] = [exists |-> TRUE, total_seats |-> total, price_cents |-> price,
                             seats |-> [s \in Seat |-> NoRecord],
                             loaded |-> [s \in Seat |-> NoRecord]]]

\* StateMachine._add_show
add_show(st, sh, total, price) ==
    IF total = 0 THEN st
    ELSE IF ~st[sh].exists
    THEN [st EXCEPT ![sh] = [exists |-> TRUE, total_seats |-> total, price_cents |-> price,
                             seats |-> [s \in Seat |-> NoRecord],
                             loaded |-> [s \in Seat |-> NoRecord]]]
    ELSE [st EXCEPT ![sh].total_seats = total, ![sh].price_cents = price]

ReleaseCmd(sh, s) == [type |-> "release", show_id |-> sh, seat_id |-> s]

\* command bytes json.loads rejects, and a command of a type apply does not know
MalformedCmd == [type |-> "malformed"]
UnknownCmd == [type |-> "unknown"]

\* StateMachine._release_seat
release_seat(st, sh, s) ==
    IF ~st[sh].exists THEN st
    ELSE IF s \notin Seat \/ ~st[sh].seats[s].present THEN st
    ELSE [st EXCEPT ![sh].seats[s] =
            [present |-> TRUE, reserved |-> FALSE, user_id |-> "none", booking_id |-> 0]]

\* StateMachine.apply working on the state machine of node 1 (the snapshot file
\* the nodes of one host share) instead of its own
apply_shared(st, cmd) ==
    IF cmd.type = "malformed" THEN st
    ELSE IF cmd.type = "reserve"
    THEN reserve_seat(shows[1], cmd.show_id, cmd.seat_id, cmd.user_id, cmd.booking_id)
    ELSE IF cmd.type = "add_show"
    THEN add_show(shows[1], cmd.show_id, cmd.total_seats, cmd.price_cents)
    ELSE IF cmd.type = "release"
    THEN release_seat(shows[1], cmd.show_id, cmd.seat_id)
    ELSE st

\* StateMachine.apply (the reserved_at timestamp is not part of the state)
apply(st, cmd) ==
    IF cmd.type = "malformed" THEN st
    ELSE IF cmd.type = "reserve"
    THEN reserve_seat(st, cmd.show_id, cmd.seat_id, cmd.user_id, cmd.booking_id)
    ELSE IF cmd.type = "add_show"
    THEN add_show(st, cmd.show_id, cmd.total_seats, cmd.price_cents)
    ELSE IF cmd.type = "release"
    THEN release_seat(st, cmd.show_id, cmd.seat_id)
    ELSE st

\* StateMachine.query (with _get_seat_record)
query(st, sh, s) ==
    IF ~st[sh].exists
    THEN [exists |-> FALSE, reserved |-> TRUE, user_id |-> "none", booking_id |-> 0,
          price_cents |-> 0]
    ELSE IF s <= 0 \/ s > st[sh].total_seats
    THEN [exists |-> FALSE, reserved |-> TRUE, user_id |-> "none", booking_id |-> 0,
          price_cents |-> st[sh].price_cents]
    ELSE IF s \in Seat /\ st[sh].seats[s].present
    THEN [exists |-> TRUE, reserved |-> st[sh].seats[s].reserved,
          user_id |-> st[sh].seats[s].user_id, booking_id |-> st[sh].seats[s].booking_id,
          price_cents |-> st[sh].price_cents]
    ELSE [exists |-> TRUE, reserved |-> FALSE, user_id |-> "none", booking_id |-> 0,
          price_cents |-> st[sh].price_cents]

\* StateMachine.get_show_data(show_id) is not None: SeatManager.get_show_price
\* found a price
has_show_price(st, sh) == st[sh].exists

\* the loop of RaftNode._apply_committed, passing over the entries whose proposal
\* ran into its deadline
RECURSIVE ApplyRange_waited(_, _, _, _)
ApplyRange_waited(st, l, from, to) ==
    IF from > to THEN st
    ELSE ApplyRange_waited(
            IF /\ HasEntry(l, from)
               /\ ~\E c \in Call : /\ calls[c].result = "timeout"
                                    /\ calls[c].index = from
                                    /\ l[from].cmd.type = "reserve"
                                    /\ l[from].cmd.booking_id = c
            THEN apply(st, l[from].cmd) ELSE st,
            l, from + 1, to)

\* the loop of RaftNode._apply_committed over last_applied+1 .. commit_index:
\* the state machine after it (a missing entry is logged and skipped)
RECURSIVE ApplyRange(_, _, _, _)
ApplyRange(st, l, from, to) ==
    IF from > to THEN st
    ELSE ApplyRange(IF HasEntry(l, from) THEN apply(st, l[from].cmd) ELSE st, l, from + 1, to)

----------------------------------------------------------------------------
\* raft/raft.py: state after RaftNode.__init__ on every node, no call issued

NoElection == [active |-> FALSE, term |-> 0, last_log_index |-> 0, last_log_term |-> 0]
NoRpc == [st |-> "none", term |-> 0, granted |-> FALSE]
IdleCall == [st |-> "idle", kind |-> "none", node |-> 0, user |-> "none", show |-> "none",
             seat |-> 0, total |-> 0, card |-> "none", payment |-> "none", index |-> 0,
             result |-> "none", booking_id |-> 0, page_size |-> 0, token |-> 0,
             pages |-> << >>]

Init ==
    /\ alive = [n \in Node |-> TRUE]
    /\ current_term = [n \in Node |-> 0]
    /\ voted_for = [n \in Node |-> 0]
    /\ log = [n \in Node |-> EmptyLog]
    /\ commit_index = [n \in Node |-> 0]
    /\ last_applied = [n \in Node |-> 0]
    /\ role = [n \in Node |-> "follower"]
    /\ next_index = [n \in Node |-> [p \in Node |-> 1]]
    /\ match_index = [n \in Node |-> [p \in Node |-> 0]]
    /\ shows = [n \in Node |-> load_state]
    /\ election = [n \in Node |-> NoElection]
    /\ rv = [n \in Node |-> [p \in Node |-> NoRpc]]
    /\ msgs = {}
    /\ calls = [c \in Call |-> IdleCall]
    /\ elected = {}
    /\ voted = {}

\* RaftNode._transition_to_follower: the term and the vote after it
TermAfter(n, t) == IF t > current_term[n] THEN t ELSE current_term[n]
VoteAfter(n, t) == IF t > current_term[n] THEN 0 ELSE voted_for[n]

\* the AppendEntries request RaftNode._send_append_entries builds for peer p
AppendEntriesRequest(n, p, is_heartbeat, l, nidx, term, commit) ==
    [type |-> "AE", from |-> n, to |-> p, term |-> term,
     prev_log_index |-> nidx - 1, prev_log_term |-> TermAt(l, nidx - 1),
     entries |-> IF is_heartbeat THEN << >> ELSE entries_from(l, nidx),
     leader_commit |-> commit]

\* RaftNode._send_append_entries to the peers in ps; the RPC to an unreachable peer
\* fails at once
send_append_entries(n, ps, is_heartbeat, l, nidx, term, commit) ==
    {AppendEntriesRequest(n, p, is_heartbeat, l, nidx[p], term, commit) :
        p \in {q \in ps : Connected(n, q)}}

Room(new) == Cardinality(msgs \cup new) <= MaxMsgs

\* RaftNode._apply_committed on node n resolving every Future of the node
ResolvedBy_all_waiting(n) ==
    {c \in Call : calls[c].st = "waiting" /\ calls[c].node = n}

\* RaftNode._apply_committed on node n: the calls whose Future it resolves
ResolvedBy(n) ==
    {c \in Call : /\ calls[c].st = "waiting"
                  /\ calls[c].node = n
                  /\ calls[c].index > last_applied[n]
                  /\ calls[c].index <= commit_index[n]
                  /\ HasEntry(log[n], calls[c].index)}

\* RaftNode._apply_committed
apply_committed(n) ==
    /\ shows' = [shows EXCEPT ![n] =
                    ApplyRange(shows[n], log[n], last_applied[n] + 1, commit_index[n])]
    /\ last_applied' = [last_applied EXCEPT ![n] = Max2(last_applied[n], commit_index[n])]
    /\ calls' = [c \in Call |->
                    IF c \in ResolvedBy(n) THEN [calls[c] EXCEPT !.st = "resolved"]
                    ELSE calls[c]]

\* RaftNode._run_loop, an iteration in which neither the heartbeat nor the
\* election timeout is due
RunLoopApply(n) ==
    /\ alive[n] /\ ~election[n].active
    /\ last_applied[n] < commit_index[n]
    /\ apply_committed(n)
    /\ UNCHANGED <<alive, current_term, voted_for, log, commit_index, role, next_index,
                   match_index, election, rv, msgs, elected, voted>>

\* RaftNode._run_loop, an iteration of the leader with the heartbeat due; ps are
\* the peers whose RPC is delivered, the RPC to any other peer fails (AioRpcError)
Heartbeat(n, ps) ==
    /\ alive[n] /\ ~election[n].active
    /\ role[n] = "leader"
    /\ apply_committed(n)
    /\ LET new == send_append_entries(n, ps, TRUE, log[n], next_index[n],
                                      current_term[n], commit_index[n])
       IN /\ Room(new)
          /\ msgs' = msgs \cup new
    /\ UNCHANGED <<alive, current_term, voted_for, log, commit_index, role, next_index,
                   match_index, election, rv, elected, voted>>

\* RaftNode._run_loop with the election timeout due: _start_election up to its gather
start_election(n) ==
    /\ alive[n] /\ ~election[n].active
    /\ role[n] \in {"follower", "candidate"}
    /\ apply_committed(n)
    /\ role' = [role EXCEPT ![n] = "candidate"]
    /\ current_term' = [current_term EXCEPT ![n] = current_term[n] + 1]
    /\ voted_for' = [voted_for EXCEPT ![n] = n]
    /\ election' = [election EXCEPT ![n] =
                      [active |-> TRUE, term |-> current_term[n] + 1,
                       last_log_index |-> last_index(log[n]),
                       last_log_term |-> TermAt(log[n], last_index(log[n]))]]
    /\ rv' = [rv EXCEPT ![n] =
                [p \in Node |->
                    IF p = n THEN NoRpc
                    ELSE IF Connected(n, p) THEN [st |-> "wait", term |-> 0, granted |-> FALSE]
                    ELSE [st |-> "fail", term |-> 0, granted |-> FALSE]]]
    /\ voted' = voted \cup {<<n, current_term[n] + 1, n>>}
    /\ UNCHANGED <<alive, log, commit_index, next_index, match_index, msgs, elected>>

\* the election timeout of node n expires, at any moment; the first election of
\* the cluster is that of node 1 (the nodes are symmetric)
Timeout(n) ==
    /\ Cardinality(Elections) < MaxElections
    /\ voted = {} => n = 1
    /\ start_election(n)

\* the candidate of the latest election
LastCandidate == (CHOOSE v \in Elections : \A w \in Elections : w[2] <= v[2])[1]

\* the election timeout of node n expires in a cluster whose messages arrive in
\* time: no live leader is sending heartbeats, no other election is under way,
\* and a node whose election just failed leaves the next turn to another live node
QuietTimeout(n) ==
    /\ Cardinality(Elections) < MaxQuietElections
    /\ voted = {} => n = 1
    /\ \A p \in Node : ~(alive[p] /\ role[p] = "leader")
    /\ \A p \in Node : ~election[p].active
    /\ IF Elections = {} THEN TRUE
       ELSE n # LastCandidate \/ \A p \in Peers(n) : ~alive[p]
    /\ start_election(n)

\* the can_vote test of RaftNode.handle_request_vote, passing whatever the vote
can_vote_any(vote, candidate_id) == TRUE

\* the can_vote test of RaftNode.handle_request_vote
can_vote(vote, candidate_id) == vote = 0 \/ vote = candidate_id

\* the up-to-date test of RaftNode.handle_request_vote, passing every log
log_up_to_date_any(req, l) == TRUE

\* the up-to-date test of RaftNode.handle_request_vote
log_up_to_date(req, l) ==
    \/ req.last_log_term > TermAt(l, last_index(l))
    \/ /\ req.last_log_term = TermAt(l, last_index(l))
       /\ req.last_log_index >= last_index(l)

\* RaftNode.handle_request_vote on node m for the request of candidate n
HandleRequestVote(n, m) ==
    /\ alive[m] /\ rv[n][m].st = "wait"
    /\ LET req == election[n]
           stale == req.term < current_term[m]
           term2 == TermAfter(m, req.term)
           vote2 == VoteAfter(m, req.term)
           grant == /\ ~stale
                    /\ can_vote(vote2, n)
                    /\ log_up_to_date(req, log[m])
       IN /\ current_term' = [current_term EXCEPT ![m] = term2]
          /\ voted_for' = [voted_for EXCEPT ![m] = IF grant THEN n ELSE vote2]
          /\ role' = [role EXCEPT ![m] =
                        IF req.term > current_term[m] THEN "follower" ELSE role[m]]
          /\ voted' = IF grant THEN voted \cup {<<m, term2, n>>} ELSE voted
          /\ rv' = [rv EXCEPT ![n][m] =
                      [st |-> "resp", term |-> term2, granted |-> grant]]
    /\ UNCHANGED <<alive, log, commit_index, last_applied, next_index, match_index,
                   shows, election, msgs, calls, elected>>

\* RaftNode._start_election after its gather, with _transition_to_leader; ps are
\* the peers whose first heartbeat is delivered, the RPC to any other peer fails
TallyTo(n, ps) ==
    /\ alive[n] /\ election[n].active
    /\ \A p \in Peers(n) : rv[n][p].st # "wait"
    /\ LET higher == {p \in Peers(n) : rv[n][p].st = "resp" /\ rv[n][p].term > current_term[n]}
           votes_received == 1 + Cardinality({p \in Peers(n) :
                                   rv[n][p].st = "resp" /\ rv[n][p].granted})
           wins == higher = {} /\ role[n] = "candidate" /\ votes_received >= majority
           nidx == [p \in Node |-> IF p = n THEN next_index[n][p] ELSE last_index(log[n]) + 1]
           new == IF wins
                  THEN send_append_entries(n, ps, TRUE, log[n], nidx,
                                           current_term[n], commit_index[n])
                  ELSE {}
       IN /\ Room(new)
          /\ msgs' = msgs \cup new
          /\ current_term' = [current_term EXCEPT ![n] =
                 IF higher # {}
                 THEN rv[n][CHOOSE p \in higher : \A q \in higher : p <= q].term
                 ELSE current_term[n]]
          /\ voted_for' = [voted_for EXCEPT ![n] = IF higher # {} THEN 0 ELSE voted_for[n]]
          /\ role' = [role EXCEPT ![n] =
                 IF higher # {} THEN "follower"
                 ELSE IF wins THEN "leader"
                 ELSE IF role[n] = "candidate" THEN "follower"
                 ELSE role[n]]
          /\ next_index' = [next_index EXCEPT ![n] = IF wins THEN nidx ELSE next_index[n]]
          /\ match_index' = [match_index EXCEPT ![n] =
                 IF wins THEN [p \in Node |-> IF p = n THEN match_index[n][p] ELSE 0]
                 ELSE match_index[n]]
          /\ elected' = IF wins THEN elected \cup {<<current_term[n], n>>} ELSE elected
    /\ election' = [election EXCEPT ![n] = NoElection]
    /\ rv' = [rv EXCEPT ![n] = [p \in Node |-> NoRpc]]
    /\ UNCHANGED <<alive, log, commit_index, last_applied, shows, calls, voted>>

\* RaftNode._start_election after its gather, every first heartbeat delivered
Tally(n) == TallyTo(n, Peers(n))

----------------------------------------------------------------------------
\* AppendEntries

\* the loop of RaftNode.handle_append_entries over request.entries, from entry k:
\* [ok, log, last]: no conflict met, the log after it, last_appended_index
RECURSIVE AppendLoop(_, _, _, _)
AppendLoop(l, entries, k, last) ==
    IF k > Len(entries) THEN [ok |-> TRUE, log |-> l, last |-> last]
    ELSE LET e == entries[k]
         IN IF HasEntry(l, e.index) /\ l[e.index].term # e.term
            THEN [ok |-> FALSE, log |-> l, last |-> last]
            ELSE IF ~HasEntry(l, e.index)
            THEN AppendLoop(LogAppend(l, e.index, [term |-> e.term, cmd |-> e.cmd]),
                            entries, k + 1, e.index)
            ELSE AppendLoop(l, entries, k + 1, e.index)

\* the commit index RaftNode.handle_append_entries sets for an empty request,
\* taking leader_commit as it is
HeartbeatCommit_unbounded(leader_commit, ci, l) ==
    IF leader_commit > ci THEN leader_commit ELSE ci

\* the commit index RaftNode.handle_append_entries sets for an empty request,
\* assigning without comparing leader_commit with its own
HeartbeatCommit_assign(leader_commit, ci, l) == Min2(leader_commit, last_index(l))

\* the commit index RaftNode.handle_append_entries sets for an empty request
HeartbeatCommit(leader_commit, ci, l) ==
    IF leader_commit > ci THEN Min2(leader_commit, last_index(l)) ELSE ci

\* the commit index RaftNode.handle_append_entries sets after appending entries
EntriesCommit(leader_commit, ci, last_appended_index) ==
    IF leader_commit > ci THEN Min2(leader_commit, last_appended_index) ELSE ci

AppendEntriesResponse(n, m, term, success) ==
    IF Connected(n, m.from)
    THEN {[type |-> "AER", from |-> n, to |-> m.from, term |-> term, success |-> success,
           prev_log_index |-> m.prev_log_index, nentries |-> Len(m.entries)]}
    ELSE {}

\* the prev_log test of RaftNode.handle_append_entries, passing every request
prev_log_unchecked(l, prev_log_index, prev_log_term) == FALSE

\* the prev_log test of RaftNode.handle_append_entries: the request is refused
prev_log_mismatch(l, prev_log_index, prev_log_term) ==
    /\ prev_log_index > 0
    /\ \/ ~HasEntry(l, prev_log_index)
       \/ l[prev_log_index].term # prev_log_term

\* RaftNode.handle_append_entries on node m.to
HandleAppendEntries(m) ==
    /\ m \in msgs /\ m.type = "AE" /\ alive[m.to]
    /\ LET n == m.to
           stale == m.term < current_term[n]
           term2 == TermAfter(n, m.term)
           mismatch == prev_log_mismatch(log[n], m.prev_log_index, m.prev_log_term)
           r == AppendLoop(log[n], m.entries, 1, m.prev_log_index)
           success == ~stale /\ ~mismatch /\ (m.entries = << >> \/ r.ok)
       IN /\ current_term' = [current_term EXCEPT ![n] = term2]
          /\ voted_for' = [voted_for EXCEPT ![n] = VoteAfter(n, m.term)]
          /\ role' = [role EXCEPT ![n] = IF stale THEN role[n] ELSE "follower"]
          /\ log' = [log EXCEPT ![n] =
                        IF stale \/ mismatch \/ m.entries = << >> THEN log[n] ELSE r.log]
          /\ commit_index' = [commit_index EXCEPT ![n] =
                        IF stale \/ mismatch THEN commit_index[n]
                        ELSE IF m.entries = << >>
                        THEN HeartbeatCommit(m.leader_commit, commit_index[n], log[n])
                        ELSE IF r.ok
                        THEN EntriesCommit(m.leader_commit, commit_index[n], r.last)
                        ELSE commit_index[n]]
          /\ msgs' = (msgs \ {m}) \cup AppendEntriesResponse(n, m, term2, success)
    /\ UNCHANGED <<alive, last_applied, next_index, match_index, shows, election, rv,
                   calls, elected, voted>>

\* RaftNode._check_for_commit: the loop from N, the commit index it ends with
RECURSIVE CommitLoop(_, _, _, _, _)
CommitLoop(N, ci, l, mi, term) ==
    IF N > last_index(l) THEN ci
    ELSE IF 1 + Cardinality({p \in DOMAIN mi : mi[p] >= N}) >= majority
    THEN IF HasEntry(l, N) /\ l[N].term = term
         THEN CommitLoop(N + 1, N, l, mi, term)
         ELSE ci
    ELSE ci

\* RaftNode._check_for_commit leaving the commit index where it is
check_for_commit_never(ci, l, mi, term) == ci

\* RaftNode._check_for_commit
check_for_commit(ci, l, mi, term) == CommitLoop(ci + 1, ci, l, mi, term)

\* RaftNode.match_index.values() of node n: one entry per peer
PeerMatch(n, mi) == [p \in Peers(n) |-> mi[p]]

\* the match index of RaftNode._call_append_entries counting one entry per request
new_match_index_one(prev_log_index, nentries) == prev_log_index + 1

\* RaftNode._call_append_entries: the match index a success response sets,
\* request.prev_log_index + len(request.entries)
new_match_index(prev_log_index, nentries) == prev_log_index + nentries

\* RaftNode._call_append_entries after the response arrived
HandleAppendEntriesResponse(m) ==
    /\ m \in msgs /\ m.type = "AER" /\ alive[m.to]
    /\ LET n == m.to
           p == m.from
           higher == m.term > current_term[n]
           act == ~higher /\ role[n] = "leader"
           nmi == new_match_index(m.prev_log_index, m.nentries)
           mi2 == [match_index[n] EXCEPT ![p] = nmi]
           ni2 == IF m.success
                  THEN [next_index[n] EXCEPT ![p] = nmi + 1]
                  ELSE [next_index[n] EXCEPT ![p] = Max2(1, next_index[n][p] - 1)]
           new == IF act /\ ~m.success
                  THEN send_append_entries(n, {p}, FALSE, log[n], ni2,
                                           current_term[n], commit_index[n])
                  ELSE {}
       IN /\ current_term' = [current_term EXCEPT ![n] = TermAfter(n, m.term)]
          /\ voted_for' = [voted_for EXCEPT ![n] = VoteAfter(n, m.term)]
          /\ role' = [role EXCEPT ![n] = IF higher THEN "follower" ELSE role[n]]
          /\ match_index' = [match_index EXCEPT ![n] =
                                IF act /\ m.success THEN mi2 ELSE match_index[n]]
          /\ next_index' = [next_index EXCEPT ![n] = IF act THEN ni2 ELSE next_index[n]]
          /\ commit_index' = [commit_index EXCEPT ![n] =
                IF act /\ m.success /\ m.nentries > 0
                THEN check_for_commit(commit_index[n], log[n], PeerMatch(n, mi2),
                                      current_term[n])
                ELSE commit_index[n]]
          /\ msgs' = (msgs \ {m}) \cup new
    /\ UNCHANGED <<alive, log, last_applied, shows, election, rv, calls, elected, voted>>

\* RaftNode._call_append_entries for a request with entries: the RPC runs into its
\* timeout before the peer handled it (AioRpcError, "retry happens in next
\* heartbeat")
LoseEntries(m) ==
    /\ m \in msgs /\ m.type = "AE" /\ m.entries # << >>
    /\ alive[m.from]
    /\ msgs' = msgs \ {m}
    /\ UNCHANGED <<alive, current_term, voted_for, log, commit_index, last_applied, role,
                   next_index, match_index, shows, election, rv, calls, elected, voted>>

FailedRpc == [st |-> "fail", term |-> 0, granted |-> FALSE]

\* the RequestVote RPCs after node n became unreachable: those to it and from it fail
RpcsWithout(n) ==
    [a \in Node |-> [b \in Node |->
        IF rv[a][b].st = "wait" /\ (a = n \/ b = n) THEN FailedRpc ELSE rv[a][b]]]

\* the process of the leader is killed (test_raft_failover.kill_node): its pending
\* handlers are gone and every RPC to it fails
Crash(n) ==
    /\ alive[n] /\ role[n] = "leader"
    /\ Cardinality({p \in Node : ~alive[p]}) < MaxCrash
    /\ alive' = [alive EXCEPT ![n] = FALSE]
    /\ msgs' = {m \in msgs : m.to # n}
    /\ rv' = [RpcsWithout(n) EXCEPT ![n] = [p \in Node |-> NoRpc]]
    /\ election' = [election EXCEPT ![n] = NoElection]
    /\ UNCHANGED <<current_term, voted_for, log, commit_index, last_applied, role,
                   next_index, match_index, shows, calls, elected, voted>>

----------------------------------------------------------------------------
\* BookSeat

\* the index RaftNode.propose gives its entry, taking the last index again
propose_index_last(l) == Max2(1, last_index(l))

\* the index RaftNode.propose gives its entry
propose_index(l) == last_index(l) + 1

\* RaftNode.propose without its test of the role
propose_unchecked(n, cmd) ==
    LET idx == propose_index(log[n])
        l2 == LogAppend(log[n], idx, [term |-> current_term[n], cmd |-> cmd])
    IN [raised |-> FALSE, index |-> idx, log |-> l2,
        msgs |-> send_append_entries(n, Peers(n), FALSE, l2, next_index[n],
                                     current_term[n], commit_index[n])]

\* RaftNode.propose on node n up to its wait for the Future: whether it raised
\* PermissionError, the index it registered a Future for, the log after it and
\* the AppendEntries requests it sends
propose(n, cmd) ==
    IF role[n] # "leader"
    THEN [raised |-> TRUE, index |-> 0, log |-> log[n], msgs |-> {}]
    ELSE LET idx == propose_index(log[n])
             l2 == LogAppend(log[n], idx, [term |-> current_term[n], cmd |-> cmd])
         IN [raised |-> FALSE, index |-> idx, log |-> l2,
             msgs |-> send_append_entries(n, Peers(n), FALSE, l2, next_index[n],
                                          current_term[n], commit_index[n])]

\* RaftNode.proposals of node n: the indices a Future waits for
proposals(n) == {calls[c].index : c \in {d \in Call : calls[d].st = "waiting" /\ calls[d].node = n}}

\* PaymentService.ProcessPayment accepting every card
ProcessPayment_accepting(card_number) == "COMPLETED"

\* PaymentService.ProcessPayment: the status of the transaction it records
ProcessPayment(card_number) == IF card_number = "9999" THEN "FAILED" ELSE "COMPLETED"

\* the calls are issued one after the other
NextCall(c) ==
    /\ calls[c].st = "idle"
    /\ \A d \in Call : d < c => calls[d].st # "idle"

\* BookingServiceServicer.BookSeat for a valid session of user u, with
\* SeatManager.book_seat up to its await of propose and RaftNode.propose up to
\* its wait for the Future
BookSeatCall(c, n, u, sh, s, card) ==
    /\ NextCall(c) /\ alive[n]
    /\ LET status == ProcessPayment(card)
           rec == query(shows[n], sh, s)
           p == propose(n, ReserveCmd(sh, s, u, c))
           started == [calls[c] EXCEPT !.kind = "book", !.node = n, !.user = u,
                                       !.show = sh, !.seat = s, !.card = card]
           charged == [started EXCEPT !.payment = status]
       IN IF ~has_show_price(shows[n], sh)
          THEN /\ calls' = [calls EXCEPT ![c] =
                               [started EXCEPT !.st = "done", !.result = "unknown_show"]]
               /\ UNCHANGED <<log, msgs>>
          ELSE IF status # "COMPLETED"
          THEN /\ calls' = [calls EXCEPT ![c] =
                               [charged EXCEPT !.st = "done", !.result = "payment_failed"]]
               /\ UNCHANGED <<log, msgs>>
          ELSE IF role[n] # "leader"
          THEN /\ calls' = [calls EXCEPT ![c] =
                               [charged EXCEPT !.st = "done", !.result = "not_leader"]]
               /\ UNCHANGED <<log, msgs>>
          ELSE IF ~rec.exists \/ rec.reserved \/ p.raised
          THEN /\ calls' = [calls EXCEPT ![c] =
                               [charged EXCEPT !.st = "done", !.result = "reserved_or_invalid"]]
               /\ UNCHANGED <<log, msgs>>
          ELSE /\ p.index <= MaxLog
               /\ Room(p.msgs)
               /\ log' = [log EXCEPT ![n] = p.log]
               /\ msgs' = msgs \cup p.msgs
               /\ calls' = [calls EXCEPT ![c] =
                               [charged EXCEPT !.st = "waiting", !.index = p.index]]
    /\ UNCHANGED <<alive, current_term, voted_for, commit_index, last_applied, role,
                   next_index, match_index, shows, election, rv, elected, voted>>

\* a BookSeat call for show s1 with a card the payment service accepts; the first
\* call is that of u1 for seat 1 (users and seats are symmetric)
BookSeat(c, n, u, s) ==
    /\ c = 1 => (u = "u1" /\ s = 1)
    /\ BookSeatCall(c, n, u, "s1", s, "4242")

\* the test of SeatManager.book_seat on the seat state read after propose,
\* without the comparison of the user
reserved_by_anyone(final_state, user_id) == final_state.reserved

\* the test of SeatManager.book_seat on the seat state read after propose
reserved_by_caller(final_state, user_id) ==
    final_state.reserved /\ final_state.user_id = user_id

\* SeatManager.book_seat after propose returned, and the BookResponse of BookSeat
BookSeatReturn(c) ==
    /\ calls[c].st = "resolved" /\ calls[c].kind = "book" /\ alive[calls[c].node]
    /\ LET final_state == query(shows[calls[c].node], calls[c].show, calls[c].seat)
       IN calls' = [calls EXCEPT ![c] =
            IF reserved_by_caller(final_state, calls[c].user)
            THEN [calls[c] EXCEPT !.st = "done", !.result = "success",
                                  !.booking_id = final_state.booking_id]
            ELSE [calls[c] EXCEPT !.st = "done", !.result = "reserved_or_invalid"]]
    /\ UNCHANGED <<alive, current_term, voted_for, log, commit_index, last_applied, role,
                   next_index, match_index, shows, election, rv, msgs, elected, voted>>

\* the test of BookingServiceServicer.AddShow on the validated user_id, passing
\* every user
is_admin_any(user_id) == TRUE

\* the test of BookingServiceServicer.AddShow on the validated user_id
is_admin(user_id) == user_id = ADMIN_ID

\* the session tokens of the auth service (SESSIONS), each named after the user
\* that logged in with it, and a token that is not in SESSIONS
SESSIONS == User \cup {ADMIN_ID}
ExpiredToken == "expired"

\* AuthService.ValidateSession
ValidateSession(token) ==
    IF token \in SESSIONS THEN [valid |-> TRUE, user_id |-> token]
    ELSE [valid |-> FALSE, user_id |-> ""]

\* BookingServiceServicer.AddShow called with a session token, with
\* SeatManager.add_show up to its await of propose and RaftNode.propose up to its
\* wait for the Future
AddShow(c, n, token, sh, total, price) ==
    /\ NextCall(c) /\ alive[n]
    /\ LET validation_resp == ValidateSession(token)
           p == propose(n, AddShowCmd(sh, total, price))
           started == [calls[c] EXCEPT !.kind = "add_show", !.node = n,
                                       !.user = validation_resp.user_id,
                                       !.show = sh, !.total = total]
       IN IF ~validation_resp.valid \/ ~is_admin(validation_resp.user_id)
          THEN /\ calls' = [calls EXCEPT ![c] =
                               [started EXCEPT !.st = "done", !.result = "permission_denied"]]
               /\ UNCHANGED <<log, msgs>>
          ELSE IF total = 0
          THEN /\ calls' = [calls EXCEPT ![c] =
                               [started EXCEPT !.st = "done", !.result = "failed"]]
               /\ UNCHANGED <<log, msgs>>
          ELSE IF role[n] # "leader"
          THEN /\ calls' = [calls EXCEPT ![c] =
                               [started EXCEPT !.st = "done", !.result = "not_leader"]]
               /\ UNCHANGED <<log, msgs>>
          ELSE IF p.raised
          THEN /\ calls' = [calls EXCEPT ![c] =
                               [started EXCEPT !.st = "done", !.result = "failed"]]
               /\ UNCHANGED <<log, msgs>>
          ELSE /\ p.index <= MaxLog
               /\ Room(p.msgs)
               /\ log' = [log EXCEPT ![n] = p.log]
               /\ msgs' = msgs \cup p.msgs
               /\ calls' = [calls EXCEPT ![c] =
                               [started EXCEPT !.st = "waiting", !.index = p.index]]
    /\ UNCHANGED <<alive, current_term, voted_for, commit_index, last_applied, role,
                   next_index, match_index, shows, election, rv, elected, voted>>

\* SeatManager.add_show after propose returned, and the AddShowResponse of AddShow
AddShowReturn(c) ==
    /\ calls[c].st = "resolved" /\ calls[c].kind = "add_show" /\ alive[calls[c].node]
    /\ calls' = [calls EXCEPT ![c] = [calls[c] EXCEPT !.st = "done", !.result = "success"]]
    /\ UNCHANGED <<alive, current_term, voted_for, log, commit_index, last_applied, role,
                   next_index, match_index, shows, election, rv, msgs, elected, voted>>

\* the deadline of asyncio.wait_for in RaftNode.propose expires: TimeoutError, which
\* book_seat and add_show catch; the entry stays in the log
ProposeTimeout(c) ==
    /\ calls[c].st = "waiting" /\ alive[calls[c].node]
    /\ calls' = [calls EXCEPT ![c] = [calls[c] EXCEPT !.st = "done", !.result = "timeout"]]
    /\ UNCHANGED <<alive, current_term, voted_for, log, commit_index, last_applied, role,
                   next_index, match_index, shows, election, rv, msgs, elected, voted>>

\* the gRPC status code BookingServiceServicer.AddShow and BookSeat set on the
\* context for each outcome (OK when they set none)
StatusCode(kind, result) ==
    IF kind = "add_show"
    THEN CASE result = "permission_denied" -> "PERMISSION_DENIED"
           [] result \in {"not_leader", "failed", "timeout"} -> "FAILED_PRECONDITION"
           [] OTHER -> "OK"
    ELSE CASE result = "payment_failed" -> "ABORTED"
           [] result = "not_leader" -> "FAILED_PRECONDITION"
           [] OTHER -> "OK"

\* SeatManager.list_seats slicing after the seat the token names
list_seats_after_token(st, sh, page_size, page_token) ==
    IF ~st[sh].exists THEN [seats |-> << >>, next_token |-> 0]
    ELSE LET total_seats == st[sh].total_seats
             start == page_token + 1
             end == Min2(start + page_size, total_seats)
             next_token == IF end < total_seats THEN end ELSE 0
             seats_to_query == [k \in 1..(end - start) |-> start + k]
         IN [seats |-> SelectSeq(seats_to_query, LAMBDA s : query(st, sh, s).exists),
             next_token |-> next_token]

\* SeatManager.list_seats: the seat numbers of the page and the next token
list_seats(st, sh, page_size, page_token) ==
    IF ~st[sh].exists THEN [seats |-> << >>, next_token |-> 0]
    ELSE LET total_seats == st[sh].total_seats
             start == page_token
             end == Min2(start + page_size, total_seats)
             next_token == IF end < total_seats THEN end ELSE 0
             seats_to_query == [k \in 1..(end - start) |-> start + k]
         IN [seats |-> SelectSeq(seats_to_query, LAMBDA s : query(st, sh, s).exists),
             next_token |-> next_token]

\* the call c after a ListSeats request for the page at page_token
ListSeatsResponse(c, n, sh, page_size, page_token) ==
    LET r == list_seats(shows[n], sh, page_size, page_token)
    IN [calls[c] EXCEPT !.kind = "list", !.node = n, !.show = sh,
                        !.page_size = page_size, !.token = r.next_token,
                        !.pages = Append(calls[c].pages, r.seats),
                        !.st = IF r.next_token = 0 THEN "done" ELSE "paging"]

\* BookingServiceServicer.ListSeats, the first request of a client: page_token 0
ListSeats(c, n, sh, page_size) ==
    /\ NextCall(c) /\ alive[n]
    /\ calls' = [calls EXCEPT ![c] = ListSeatsResponse(c, n, sh, page_size, 0)]
    /\ UNCHANGED <<alive, current_term, voted_for, log, commit_index, last_applied, role,
                   next_index, match_index, shows, election, rv, msgs, elected, voted>>

\* BookingServiceServicer.ListSeats, the client passing the token it was given
ListSeatsNext(c) ==
    /\ calls[c].kind = "list" /\ calls[c].st = "paging" /\ alive[calls[c].node]
    /\ calls' = [calls EXCEPT ![c] =
                    ListSeatsResponse(c, calls[c].node, calls[c].show, calls[c].page_size,
                                      calls[c].token)]
    /\ UNCHANGED <<alive, current_term, voted_for, log, commit_index, last_applied, role,
                   next_index, match_index, shows, election, rv, msgs, elected, voted>>

\* a BookSeat call of a client that found the leader first
LeaderBookSeat(c, n, u, s) ==
    /\ role[n] = "leader"
    /\ BookSeat(c, n, u, s)

\* the user of the c-th call when every call comes from another user
RaceUser(c) == IF c = 1 THEN "u1" ELSE "u2"

----------------------------------------------------------------------------

Next ==
    \/ \E n \in Node : RunLoopApply(n)
    \/ \E n \in Node : Heartbeat(n, Peers(n))
    \/ \E n \in Node : Timeout(n)
    \/ \E n \in Node : \E m \in Peers(n) : HandleRequestVote(n, m)
    \/ \E n \in Node : Tally(n)
    \/ \E m \in msgs : HandleAppendEntries(m)
    \/ \E m \in msgs : HandleAppendEntriesResponse(m)
    \/ \E n \in Node : Crash(n)
    \/ \E c \in Call : \E n \in Node : \E u \in User : \E s \in Seat : BookSeat(c, n, u, s)
    \/ \E c \in Call : BookSeatReturn(c)

Spec == Init /\ [][Next]_vars

\* Users racing for seat 1 through whichever node leads, while heartbeat RPCs may
\* fail, election timeouts expire at any moment on nodes 1 and 2, and the deadline
\* of a proposal expires at any moment.
SeatRaceNext ==
    \/ \E n \in Node : RunLoopApply(n)
    \/ \E n \in Node : \E ps \in SUBSET Peers(n) : Heartbeat(n, ps)
    \/ \E n \in {1, 2} : Timeout(n)
    \/ \E n \in Node : \E m \in Peers(n) : HandleRequestVote(n, m)
    \/ \E n \in Node : Tally(n)
    \/ \E m \in msgs : HandleAppendEntries(m)
    \/ \E m \in msgs : HandleAppendEntriesResponse(m)
    \/ \E n \in Node : Crash(n)
    \/ \E c \in Call : \E n \in Node : LeaderBookSeat(c, n, RaceUser(c), 1)
    \/ \E c \in Call : BookSeatReturn(c)
    \/ \E c \in Call : ProposeTimeout(c)

SeatRaceSpec == Init /\ [][SeatRaceNext]_vars

\* the prices an administrator gives a show
Price == {2 * PriceCents}

\* Clients and the administrator calling any node with any card, with the
\* deadline of a proposal expiring at any moment, while the election timeout
\* expires at any moment on node 1; the c-th booking is that of the c-th user.
ServiceNext ==
    \/ \E n \in Node : RunLoopApply(n)
    \/ \E n \in Node : Heartbeat(n, Peers(n))
    \/ Timeout(1)
    \/ \E n \in Node : \E m \in Peers(n) : HandleRequestVote(n, m)
    \/ \E n \in Node : Tally(n)
    \/ \E m \in msgs : HandleAppendEntries(m)
    \/ \E m \in msgs : HandleAppendEntriesResponse(m)
    \/ \E c \in Call : \E n \in Node : \E sh \in ShowId : \E s \in Seat :
          \E card \in Card : BookSeatCall(c, n, RaceUser(c), sh, s, card)
    \/ \E c \in Call : BookSeatReturn(c)
    \/ \E c \in Call : \E n \in Node : \E token \in {"u1", ADMIN_ID, ExpiredToken} :
          \E sh \in ShowId : \E total \in Seat : \E price \in Price :
             AddShow(c, n, token, sh, total, price)
    \/ \E c \in Call : AddShowReturn(c)
    \/ \E c \in Call : ProposeTimeout(c)

ServiceSpec == Init /\ [][ServiceNext]_vars

\* A cluster whose messages arrive in time: every RPC between live nodes is
\* delivered, election timeouts expire only without a live leader, the leader may
\* be killed, and clients call the leader.
LiveNext ==
    \/ \E n \in Node : RunLoopApply(n)
    \/ \E n \in Node : Heartbeat(n, Peers(n))
    \/ \E n \in Node : QuietTimeout(n)
    \/ \E n \in Node : \E m \in Peers(n) : HandleRequestVote(n, m)
    \/ \E n \in Node : Tally(n)
    \/ \E m \in msgs : HandleAppendEntries(m)
    \/ \E m \in msgs : HandleAppendEntriesResponse(m)
    \/ \E n \in Node : Crash(n)
    \/ \E c \in Call : \E n \in Node : \E s \in Seat :
          LeaderBookSeat(c, n, RaceUser(c), s)
    \/ \E c \in Call : BookSeatReturn(c)

\* Every node keeps running its loop and its handlers, and every RPC in flight to
\* a node is served, the empty and the entry-carrying ones alike.
LiveFairness ==
    /\ \A n \in Node : WF_vars(RunLoopApply(n))
    /\ \A n \in Node : WF_vars(Heartbeat(n, Peers(n)))
    /\ \A n \in Node : WF_vars(QuietTimeout(n))
    /\ \A n \in Node : \A m \in Node : WF_vars(m # n /\ HandleRequestVote(n, m))
    /\ \A n \in Node : WF_vars(Tally(n))
    /\ \A n \in Node : \A h \in BOOLEAN :
          WF_vars(\E m \in msgs : m.to = n /\ m.type = "AE"
                                     /\ (m.entries = << >>) = h /\ HandleAppendEntries(m))
    /\ \A n \in Node : \A h \in BOOLEAN :
          WF_vars(\E m \in msgs : m.to = n /\ m.type = "AER"
                                     /\ (m.nentries = 0) = h /\ HandleAppendEntriesResponse(m))
    /\ \A c \in Call : WF_vars(BookSeatReturn(c))

LiveSpec == Init /\ [][LiveNext]_vars /\ LiveFairness

\* A cluster that keeps running: every node keeps running its loop and its
\* handlers and every RPC in flight is served, except that an AppendEntries with
\* entries may time out; election timeouts may expire on nodes 1 and 2 at any
\* moment, and users race for seat 1 through whichever node leads.
RetryNext ==
    \/ \E n \in Node : RunLoopApply(n)
    \/ \E n \in Node : Heartbeat(n, Peers(n))
    \/ \E n \in {1, 2} : Timeout(n)
    \/ \E n \in Node : \E m \in Peers(n) : HandleRequestVote(n, m)
    \/ \E n \in Node : Tally(n)
    \/ \E m \in msgs : HandleAppendEntries(m)
    \/ \E m \in msgs : HandleAppendEntriesResponse(m)
    \/ \E m \in msgs : LoseEntries(m)
    \/ \E c \in Call : \E n \in Node : LeaderBookSeat(c, n, RaceUser(c), 1)
    \/ \E c \in Call : BookSeatReturn(c)
    \/ \E c \in Call : ProposeTimeout(c)

RetryFairness ==
    /\ \A n \in Node : WF_vars(RunLoopApply(n))
    /\ \A n \in Node : WF_vars(Heartbeat(n, Peers(n)))
    /\ \A n \in Node : \A m \in Node : WF_vars(m # n /\ HandleRequestVote(n, m))
    /\ \A n \in Node : WF_vars(Tally(n))
    /\ \A n \in Node : \A h \in BOOLEAN :
          WF_vars(\E m \in msgs : m.to = n /\ m.type = "AE"
                                     /\ (m.entries = << >>) = h /\ HandleAppendEntries(m))
    /\ \A n \in Node : \A h \in BOOLEAN :
          WF_vars(\E m \in msgs : m.to = n /\ m.type = "AER"
                                     /\ (m.nentries = 0) = h /\ HandleAppendEntriesResponse(m))
    /\ \A c \in Call : WF_vars(BookSeatReturn(c))

RetrySpec == Init /\ [][RetryNext]_vars /\ RetryFairness

\* the election timeout of node n expires while the leader it deposes goes on
\* running: node 1 stands first, node 2 after it, then node 1 again
ReturnTimeout(n) ==
    /\ Cardinality(Elections) < MaxReturnElections
    /\ n = (IF Cardinality(Elections) = 1 THEN 2 ELSE 1)
    /\ start_election(n)

\* A cluster in which a deposed leader wins a later election while the responses
\* to the requests of its first term are still on their way; the first heartbeats
\* of a new leader may fail; users race for seat 1 through whichever node leads.
ReturnNext ==
    \/ \E n \in Node : RunLoopApply(n)
    \/ \E n \in Node : Heartbeat(n, Peers(n))
    \/ \E n \in Node : ReturnTimeout(n)
    \/ \E n \in Node : \E m \in Peers(n) : HandleRequestVote(n, m)
    \/ \E n \in Node : \E ps \in SUBSET Peers(n) : TallyTo(n, ps)
    \/ \E m \in msgs : HandleAppendEntries(m)
    \/ \E m \in msgs : HandleAppendEntriesResponse(m)
    \/ \E c \in Call : \E n \in Node : LeaderBookSeat(c, n, RaceUser(c), 1)
    \/ \E c \in Call : BookSeatReturn(c)
    \/ \E c \in Call : ProposeTimeout(c)

ReturnSpec == Init /\ [][ReturnNext]_vars

\* The commands StateMachine.apply is fed: reservations and a release of seat 1,
\* the creation of show s2, undecodable bytes and an unknown type.
ApplyCmd ==
    {ReserveCmd("s1", 1, "u1", 1), ReserveCmd("s1", 1, "u2", 2), ReleaseCmd("s1", 1),
     AddShowCmd("s2", TotalSeats, PriceCents), MalformedCmd, UnknownCmd}

\* a log holding the commands of seq as entries of term 1
LogOf(seq) == [i \in 1..Len(seq) |-> [term |-> 1, cmd |-> seq[i]]]

CmdSeq == UNION {[1..k -> ApplyCmd] : k \in 1..MaxCmds}

\* StateMachine() without a snapshot file, and with the one load_state reads
FreshState == {[sh \in ShowId |-> NoShow], load_state}

\* Every node holds the same command sequence in its log and a fresh state
\* machine; node 1 leads term 1 with the whole log committed, and each follower
\* has learned some commit index of it.
ApplyInit ==
    \E seq \in CmdSeq : \E fresh \in FreshState :
       \E known \in [Node \ {1} -> 0..Len(seq)] :
        /\ alive = [n \in Node |-> TRUE]
        /\ current_term = [n \in Node |-> 1]
        /\ voted_for = [n \in Node |-> 1]
        /\ log = [n \in Node |-> LogOf(seq)]
        /\ commit_index = [n \in Node |-> IF n = 1 THEN Len(seq) ELSE known[n]]
        /\ last_applied = [n \in Node |-> 0]
        /\ role = [n \in Node |-> IF n = 1 THEN "leader" ELSE "follower"]
        /\ next_index = [n \in Node |-> [p \in Node |-> IF n = 1 THEN Len(seq) + 1 ELSE 1]]
        /\ match_index = [n \in Node |-> [p \in Node |-> IF n = 1 THEN Len(seq) ELSE 0]]
        /\ shows = [n \in Node |-> fresh]
        /\ election = [n \in Node |-> NoElection]
        /\ rv = [n \in Node |-> [p \in Node |-> NoRpc]]
        /\ msgs = {}
        /\ calls = [c \in Call |-> IdleCall]
        /\ elected = {<<1, 1>>}
        /\ voted = {<<n, 1, 1>> : n \in Node}

\* The nodes apply what they know to be committed, and the heartbeats of the
\* leader tell the followers the rest.
ApplyNext ==
    \/ \E n \in Node : RunLoopApply(n)
    \/ \E p \in Peers(1) : Heartbeat(1, {p})
    \/ \E m \in msgs : HandleAppendEntries(m)
    \/ \E m \in msgs : HandleAppendEntriesResponse(m)

ApplySpec == ApplyInit /\ [][ApplyNext]_vars

\* the process of node n is started again: RaftNode.__init__ with an empty log
\* and StateMachine() reading the snapshot file the last apply wrote; the RPCs
\* the old process was part of are gone
Restart(n) ==
    /\ alive[n]
    /\ current_term' = [current_term EXCEPT ![n] = 0]
    /\ voted_for' = [voted_for EXCEPT ![n] = 0]
    /\ log' = [log EXCEPT ![n] = EmptyLog]
    /\ commit_index' = [commit_index EXCEPT ![n] = 0]
    /\ last_applied' = [last_applied EXCEPT ![n] = 0]
    /\ role' = [role EXCEPT ![n] = "follower"]
    /\ next_index' = [next_index EXCEPT ![n] = [p \in Node |-> 1]]
    /\ match_index' = [match_index EXCEPT ![n] = [p \in Node |-> 0]]
    /\ shows' = [shows EXCEPT ![n] = json_loads(json_dump(shows[n]))]
    /\ election' = [election EXCEPT ![n] = NoElection]
    /\ rv' = [rv EXCEPT ![n] = [p \in Node |-> NoRpc]]
    /\ msgs' = {m \in msgs : m.to # n /\ m.from # n}
    /\ UNCHANGED <<alive, calls, elected, voted>>

\* The commands of the restart runs: two users reserve seat 1, and a release.
RestartCmd ==
    {ReserveCmd("s1", 1, "u1", 1), ReserveCmd("s1", 1, "u2", 2), ReleaseCmd("s1", 1)}

\* Every node holds the same sequence of these commands in its log and the
\* state machine load_state gives; node 1 leads term 1 with the whole log
\* committed, and each follower has learned some commit index of it.
RestartInit ==
    \E seq \in UNION {[1..k -> RestartCmd] : k \in 1..MaxLog} :
       \E known \in [Node \ {1} -> 0..Len(seq)] :
        /\ alive = [n \in Node |-> TRUE]
        /\ current_term = [n \in Node |-> 1]
        /\ voted_for = [n \in Node |-> 1]
        /\ log = [n \in Node |-> LogOf(seq)]
        /\ commit_index = [n \in Node |-> IF n = 1 THEN Len(seq) ELSE known[n]]
        /\ last_applied = [n \in Node |-> 0]
        /\ role = [n \in Node |-> IF n = 1 THEN "leader" ELSE "follower"]
        /\ next_index = [n \in Node |-> [p \in Node |-> IF n = 1 THEN Len(seq) + 1 ELSE 1]]
        /\ match_index = [n \in Node |-> [p \in Node |-> IF n = 1 THEN Len(seq) ELSE 0]]
        /\ shows = [n \in Node |-> load_state]
        /\ election = [n \in Node |-> NoElection]
        /\ rv = [n \in Node |-> [p \in Node |-> NoRpc]]
        /\ msgs = {}
        /\ calls = [c \in Call |-> IdleCall]
        /\ elected = {<<1, 1>>}
        /\ voted = {<<n, 1, 1>> : n \in Node}

\* The nodes apply what they know to be committed, the leader sends heartbeats
\* and answers refusals with the entries, and the process of a follower may be
\* started again.
RestartNext ==
    \/ \E n \in Node : RunLoopApply(n)
    \/ \E p \in Peers(1) : Heartbeat(1, {p})
    \/ \E m \in msgs : HandleAppendEntries(m)
    \/ \E m \in msgs : HandleAppendEntriesResponse(m)
    \/ \E n \in Peers(1) : Restart(n)

RestartSpec == RestartInit /\ [][RestartNext]_vars

\* the page sizes a client asks for
PageSize == 1..(MaxListSeats + 1)

\* Every node holds show s1 with some number of seats, seat 1 reserved or not.
ListInit ==
    \E n \in 1..MaxListSeats : \E taken \in BOOLEAN :
        /\ Init!1 /\ Init!2 /\ Init!3 /\ Init!4 /\ Init!5 /\ Init!6 /\ Init!7
        /\ Init!8 /\ Init!9
        /\ shows = [m \in Node |->
                      LET listed == add_show(load_state, "s1", n, PriceCents)
                      IN IF taken THEN reserve_seat(listed, "s1", 1, "u1", 1) ELSE listed]
        /\ Init!11 /\ Init!12 /\ Init!13 /\ Init!14 /\ Init!15 /\ Init!16

\* Clients page through the seats of a show on any node.
ListNext ==
    \/ \E c \in Call : \E n \in Node : \E sh \in ShowId : \E page_size \in PageSize :
          ListSeats(c, n, sh, page_size)
    \/ \E c \in Call : ListSeatsNext(c)

ListSpec == ListInit /\ [][ListNext]_vars

----------------------------------------------------------------------------
\* Properties

IsReserve(l, i, sh, s) ==
    HasEntry(l, i) /\ l[i].cmd.type = "reserve" /\ l[i].cmd.show_id = sh /\ l[i].cmd.seat_id = s

\* the state machine of a node that loaded the snapshot and applied log indices 1..k
StateAfter(l, k) == ApplyRange(load_state, l, 1, k)

\* C1: for every show and seat, any two nodes whose state machines both record the
\* seat as reserved record the same user_id and the same booking_id.
C1_ReservedAtMostOnce ==
    \A a, b \in Node : \A sh \in ShowId : \A s \in Seat :
        LET ra == query(shows[a], sh, s)
            rb == query(shows[b], sh, s)
        IN (ra.exists /\ rb.exists /\ ra.reserved /\ rb.reserved)
              => (ra.user_id = rb.user_id /\ ra.booking_id = rb.booking_id)

\* C2: for any two nodes and any index N that is <= commit_index on both, the two
\* nodes hold at N entries with the same term and the same command.
C2_StateMachineSafety ==
    \A a, b \in Node : \A N \in 1..MaxLog :
        (N <= commit_index[a] /\ N <= commit_index[b])
            => (HasEntry(log[a], N) /\ HasEntry(log[b], N) /\ log[a][N] = log[b][N])

\* C4: once a BookSeat call returned success for a seat with user U and booking_id B
\* and the leader that answered it has crashed, every leader of a later term holds
\* that reserve entry at the same index, and every live node that reports the seat
\* as reserved reports user U and booking_id B.
C4_AckedBookingSurvives ==
    \A c \in Call :
        (calls[c].result = "success" /\ ~alive[calls[c].node]) =>
            /\ \A n \in Node :
                  (alive[n] /\ role[n] = "leader"
                     /\ current_term[n] > log[calls[c].node][calls[c].index].term)
                  => /\ HasEntry(log[n], calls[c].index)
                     /\ log[n][calls[c].index] = log[calls[c].node][calls[c].index]
            /\ \A n \in Node :
                  LET r == query(shows[n], "s1", calls[c].seat)
                  IN (alive[n] /\ r.exists /\ r.reserved)
                        => (r.user_id = calls[c].user /\ r.booking_id = calls[c].booking_id)

\* C6: for every term at most one node ever became leader in it, every node that
\* became leader in term T had the votes of a majority of the cluster (its own
\* included) recorded in term T, and every node whose role is leader became leader
\* in its current term.
C6_ElectionSafety ==
    /\ \A e1, e2 \in elected : e1[1] = e2[1] => e1[2] = e2[2]
    /\ \A e \in elected :
          2 * Cardinality({m \in Node : <<m, e[1], e[2]>> \in voted}) > Cardinality(Node)
    /\ \A n \in Node : role[n] = "leader" => <<current_term[n], n>> \in elected

\* C6 witness: two terms have had a leader, two different nodes
C6_Witness ==
    \E e1, e2 \in elected : e1[1] # e2[1] /\ e1[2] # e2[2]

\* the indices of the committed prefix of log l (commit index ci) that hold a
\* reserve command for the seat
CommittedReserves(l, ci, sh, s) == {i \in 1..ci : IsReserve(l, i, sh, s)}

\* those of them that change the state machine when the prefix is applied in order
EffectiveReserves(l, ci, sh, s) ==
    {i \in CommittedReserves(l, ci, sh, s) :
        apply(StateAfter(l, i - 1), l[i].cmd) # StateAfter(l, i - 1)}

\* C9 as stated: for any (show, seat), at most one reserve command for it is present
\* in the committed prefix of any node's log.
C9_OneReservePerSeatCommitted ==
    \A n \in Node : \A sh \in ShowId : \A s \in Seat :
        Cardinality(CommittedReserves(log[n], commit_index[n], sh, s)) <= 1

\* C9 amended: for any (show, seat), at most one of the reserve commands for it in
\* the committed prefix of any node's log takes effect when the prefix is applied;
\* every other one is a no-op.
C9_OneEffectiveReservePerSeat ==
    \A n \in Node : \A sh \in ShowId : \A s \in Seat :
        Cardinality(EffectiveReserves(log[n], commit_index[n], sh, s)) <= 1

\* C9 witness: a node has committed and applied two reserve commands for one seat
C9_Witness ==
    \E n \in Node : \E s \in Seat :
        /\ Cardinality(CommittedReserves(log[n], commit_index[n], "s1", s)) = 2
        /\ last_applied[n] = 2
        /\ Cardinality(EffectiveReserves(log[n], commit_index[n], "s1", s)) = 1

\* C10 as stated: for every pair of nodes and every index present in both logs, the
\* two entries have equal term and equal command.
C10_LogsAgreeEverywhere ==
    \A a, b \in Node : \A i \in 1..MaxLog :
        (HasEntry(log[a], i) /\ HasEntry(log[b], i)) => log[a][i] = log[b][i]

\* C10 amended: for every pair of nodes and every index present in both logs, if the
\* two entries have equal term then they have equal command.
C10_LogsAgreeOnEqualTerm ==
    \A a, b \in Node : \A i \in 1..MaxLog :
        (HasEntry(log[a], i) /\ HasEntry(log[b], i) /\ log[a][i].term = log[b][i].term)
            => log[a][i].cmd = log[b][i].cmd

\* C10 witness: two nodes hold the same entry at an index at which a third node
\* holds an entry of another term
C10_Witness ==
    \E a, b, c \in Node : \E i \in 1..MaxLog :
        /\ a # b /\ HasEntry(log[a], i) /\ HasEntry(log[b], i) /\ HasEntry(log[c], i)
        /\ log[a][i] = log[b][i]
        /\ log[c][i].term # log[a][i].term

----------------------------------------------------------------------------
\* Properties of the cluster whose messages arrive in time (LiveSpec)

\* the calls issued so far for the seat
CallsFor(s) == {c \in Call : calls[c].st # "idle" /\ calls[c].seat = s}

\* the race for the seat is over: calls of pairwise distinct users were made for
\* it, all on one node that is alive and leads, with every peer alive, and all
\* of them have returned
RaceOver(s) ==
    /\ CallsFor(s) # {}
    /\ \A c \in CallsFor(s) : calls[c].st = "done"
    /\ \A c, d \in CallsFor(s) :
          /\ calls[c].node = calls[d].node
          /\ c # d => calls[c].user # calls[d].user
    /\ \A n \in Node : alive[n]
    /\ \A c \in CallsFor(s) : role[calls[c].node] = "leader"

Winners(s) == {c \in CallsFor(s) : calls[c].result = "success"}

\* every node's query shows the seat reserved by the user of the winning call
ShownToAll(s) ==
    \A c \in Winners(s) : \A n \in Node :
        LET r == query(shows[n], "s1", s)
        IN r.exists /\ r.reserved /\ r.user_id = calls[c].user
             /\ r.booking_id = calls[c].booking_id

\* C3: when calls of pairwise distinct users for one free seat, made on a leader
\* whose peers are reachable, have all returned, exactly one returned success and
\* every other one returned the "already reserved" failure; and from then on,
\* unless a node is killed, every node's query comes to show the seat reserved
\* by the winning user.
C3_RaceHasOneWinner ==
    /\ [](\A s \in Seat :
            RaceOver(s) =>
                /\ Cardinality(Winners(s)) = 1
                /\ \A c \in CallsFor(s) \ Winners(s) :
                       calls[c].result = "reserved_or_invalid")
    /\ \A s \in Seat :
          [](RaceOver(s) => <>(ShownToAll(s) \/ \E n \in Node : ~alive[n]))

\* C3 witness: two calls of two users for one seat have both put a reserve
\* command in the leader's log, both have returned, and every node shows the
\* seat reserved by the winner
C3_Witness ==
    \E s \in Seat :
        /\ RaceOver(s) /\ Cardinality(CallsFor(s)) = 2
        /\ \A c \in CallsFor(s) : calls[c].index > 0
        /\ Cardinality(Winners(s)) = 1
        /\ ShownToAll(s)

\* a call that returned success on a node that has been killed since
AckedThenKilled(d) == calls[d].result = "success" /\ ~alive[calls[d].node]

\* call c, for another seat than an acknowledged booking whose leader was killed,
\* waits for its proposal on the node that leads now
SubmittedAfterFailover(c) ==
    /\ calls[c].st = "waiting"
    /\ alive[calls[c].node] /\ role[calls[c].node] = "leader"
    /\ \E d \in Call : /\ AckedThenKilled(d)
                        /\ calls[d].node # calls[c].node
                        /\ calls[d].seat # calls[c].seat

\* C5: after the leader that acknowledged a booking was killed, a BookSeat for
\* another free seat submitted to the new leader eventually returns success.
C5_ProgressAfterFailover ==
    \A c \in Call : [](SubmittedAfterFailover(c) => <>(calls[c].result = "success"))

MajorityLive ==
    \E Q \in SUBSET Node : 2 * Cardinality(Q) > Cardinality(Node) /\ \A n \in Q : alive[n]
LiveLeader == \E n \in Node : alive[n] /\ role[n] = "leader"

C8_CommittedReachesAll ==
    \A N \in 1..MaxLog : \A n \in Node :
        [](commit_index[n] >= N =>
             <>(\A m \in Node : alive[m] =>
                    /\ last_applied[m] >= N
                    /\ HasEntry(log[m], N) /\ HasEntry(log[n], N)
                    /\ log[m][N] = log[n][N]))

----------------------------------------------------------------------------
\* Properties of every node's indices and of the calls of the service

\* C11: on every node last_applied <= commit_index, commit_index <= the last log
\* index, and the log holds an entry at every index 1..commit_index.
C11_AppliedWithinCommitted ==
    \A n \in Node :
        /\ last_applied[n] <= commit_index[n]
        /\ commit_index[n] <= last_index(log[n])
        /\ \A i \in 1..commit_index[n] : HasEntry(log[n], i)

\* C11 witness: a follower has received two entries, learnt from the leader that
\* both are committed, and applied them
C11_Witness ==
    \E n \in Node :
        /\ role[n] = "follower" /\ \E p \in Peers(n) : role[p] = "leader" /\ commit_index[p] = 2
        /\ commit_index[n] = 2 /\ last_applied[n] = 2

\* the log entries, on any node, that hold the reserve command of call c
EntriesOf(c) ==
    {<<n, i>> \in Node \X (1..MaxLog) :
        /\ HasEntry(log[n], i) /\ log[n][i].cmd.type = "reserve"
        /\ log[n][i].cmd.booking_id = c}

\* call c was charged with the card the payment service refuses
ChargeRefused(c) ==
    /\ calls[c].kind = "book" /\ calls[c].card = "9999"
    /\ calls[c].result # "unknown_show"

\* C12: a BookSeat call whose charge is refused returns the payment failure with a
\* FAILED transaction, never registers a proposal, has no reserve command in any
\* node's log, and the step in which it returns changes no node's log, commit
\* index or state machine and sends no message.
C12_PaymentFailureReservesNothing ==
    /\ [](\A c \in Call :
            ChargeRefused(c) =>
                /\ calls[c].st = "done" /\ calls[c].result = "payment_failed"
                /\ calls[c].payment = "FAILED"
                /\ calls[c].index = 0
                /\ EntriesOf(c) = {})
    /\ [][\A c \in Call :
            (calls[c].st = "idle" /\ calls'[c].card = "9999")
                => UNCHANGED <<log, msgs, commit_index, last_applied, shows>>]_vars

\* C12 witness: on a leader that has committed another command, a call for a free
\* seat of an existing show was refused its charge, and the seat is free on every
\* node
C12_Witness ==
    \E c \in Call :
        /\ calls[c].result = "payment_failed"
        /\ role[calls[c].node] = "leader" /\ commit_index[calls[c].node] >= 1
        /\ \A n \in Node :
              LET r == query(shows[n], calls[c].show, calls[c].seat)
              IN r.exists /\ ~r.reserved

\* C13: a BookSeat call that a node answers with the not-leader status has
\* created no payment transaction and has put no entry in any log.
C13_NotLeaderBeforeCharge ==
    \A c \in Call :
        (calls[c].kind = "book" /\ calls[c].result = "not_leader") =>
            /\ calls[c].payment = "none"
            /\ calls[c].index = 0
            /\ EntriesOf(c) = {}

\* the AddShow calls of users other than the administrator
DeniedAddShow(c) == calls[c].kind = "add_show" /\ calls[c].user # ADMIN_ID

\* the entry at index i of node n's log is the add_show command an AddShow call
\* of the administrator proposed
ProposedByAdmin(n, i) ==
    \E c \in Call :
        /\ calls[c].kind = "add_show" /\ calls[c].user = ADMIN_ID
        /\ calls[c].index = i
        /\ calls[c].show = log[n][i].cmd.show_id
        /\ calls[c].total = log[n][i].cmd.total_seats
        /\ HasEntry(log[calls[c].node], i)
        /\ log[calls[c].node][i] = log[n][i]

\* C14: an AddShow call of a user other than the administrator is answered with
\* the permission denial on any node and proposes nothing, the step in which it
\* is answered changes no node's log or state machine and sends no message, and
\* every add_show command in any log was proposed by an AddShow call of the
\* administrator.
C14_AdminGating ==
    /\ [](\A c \in Call :
            DeniedAddShow(c) =>
                /\ calls[c].st = "done" /\ calls[c].result = "permission_denied"
                /\ calls[c].index = 0)
    /\ [](\A n \in Node : \A i \in 1..MaxLog :
            (HasEntry(log[n], i) /\ log[n][i].cmd.type = "add_show") => ProposedByAdmin(n, i))
    /\ [][\A c \in Call :
            (calls[c].st = "idle" /\ calls'[c].kind = "add_show" /\ calls'[c].user # ADMIN_ID)
                => UNCHANGED <<log, msgs, commit_index, last_applied, shows>>]_vars

\* C14 witness: the leader denied the AddShow of a user, and an AddShow of the
\* administrator for the same show has been applied on a follower
C14_Witness ==
    \E c, d \in Call : \E n \in Node :
        /\ DeniedAddShow(c) /\ role[calls[c].node] = "leader"
        /\ calls[d].kind = "add_show" /\ calls[d].user = ADMIN_ID
        /\ calls[d].show = calls[c].show /\ calls[d].index > 0
        /\ role[n] = "follower" /\ last_applied[n] >= calls[d].index
        /\ shows[n][calls[d].show].price_cents = 2 * PriceCents

\* call c, the first one for its seat, waits for its proposal on the leader, and
\* every node is alive
SubmittedToStableLeader(c) ==
    /\ calls[c].kind = "book" /\ calls[c].st = "waiting"
    /\ role[calls[c].node] = "leader"
    /\ \A n \in Node : alive[n]
    /\ \A d \in Call \ {c} :
          calls[d].seat = calls[c].seat => calls[d].index > calls[c].index

\* call c returned success and every node's query reports its seat reserved by
\* its user, with the price of the show
BookedEverywhere(c) ==
    /\ calls[c].result = "success"
    /\ \A n \in Node :
          LET r == query(shows[n], calls[c].show, calls[c].seat)
          IN /\ r.exists /\ r.reserved /\ r.user_id = calls[c].user
             /\ r.price_cents = PriceCents

\* C15: a BookSeat with an accepted card for a free seat, waiting for its proposal
\* on the leader with every node alive, eventually returns success with every
\* node's query reporting the seat reserved by its user at the show's price,
\* unless a node is killed.
C15_BookingSucceedsEverywhere ==
    \A c \in Call :
        [](SubmittedToStableLeader(c) =>
              <>(BookedEverywhere(c) \/ \E n \in Node : ~alive[n]))

\* C15 witness: the only call for a seat returned success, and every node, all
\* alive, reports the seat reserved by its user at the show's price
C15_Witness ==
    \E c \in Call :
        /\ BookedEverywhere(c)
        /\ CallsFor(calls[c].seat) = {c}
        /\ \A n \in Node : alive[n] /\ last_applied[n] >= calls[c].index

\* the nodes whose log holds, at index i, the entry node n holds there
StoredOn(n, i) == {m \in Node : HasEntry(log[m], i) /\ log[m][i] = log[n][i]}

\* C16: an entry that is not stored on a majority of the nodes is within no
\* node's commit index, is applied on no node, and the Future of its proposal is
\* not resolved.
C16_UnreplicatedNeverCommitted ==
    /\ \A n \in Node : \A i \in 1..MaxLog :
          (HasEntry(log[n], i) /\ Cardinality(StoredOn(n, i)) < majority)
              => (commit_index[n] < i /\ last_applied[n] < i)
    /\ \A c \in Call :
          (calls[c].index > 0
             /\ Cardinality(StoredOn(calls[c].node, calls[c].index)) < majority)
              => (calls[c].st # "resolved" /\ calls[c].result # "success")

\* propose returned its index to call c
ProposeReturned(c) == calls[c].st = "resolved" \/ calls[c].result = "success"

\* C17: when propose has returned an index, last_applied of the node has reached
\* it and the state machine of the node holds the effect of the entry; on every
\* node the state machine is the result of applying the entries 1..last_applied
\* in index order, each once, and last_applied never decreases.
C17_ResolvedAfterApply ==
    /\ [](\A c \in Call :
            ProposeReturned(c) =>
                /\ last_applied[calls[c].node] >= calls[c].index
                /\ HasEntry(log[calls[c].node], calls[c].index)
                /\ apply(shows[calls[c].node], log[calls[c].node][calls[c].index].cmd)
                      = shows[calls[c].node])
    /\ [](\A n \in Node : shows[n] = StateAfter(log[n], last_applied[n]))
    /\ [][\A n \in Node :
            /\ last_applied'[n] >= last_applied[n]
            /\ shows'[n] = ApplyRange(shows[n], log[n], last_applied[n] + 1, last_applied'[n])]_vars

\* C17 witness: the Future of a proposal at index 2 is resolved, the call has not
\* read the seat yet, and the node has applied both entries
C17_Witness ==
    \E c \in Call :
        /\ calls[c].st = "resolved" /\ calls[c].index = 2
        /\ last_applied[calls[c].node] = 2

\* C18: no Future of a proposal stays pending on a live node that has stepped
\* down from leader: the step-down resolves it.
C18_StepDownResolvesWaiter ==
    \A c \in Call :
        (calls[c].st = "waiting" /\ alive[calls[c].node]) => role[calls[c].node] = "leader"

\* C19: on a node whose role is not leader, propose raises for every command and
\* changes nothing: the log and its last index are those before the call, no
\* Future is registered and no AppendEntries request is sent.
C19_NonLeaderProposeRejected ==
    \A n \in Node : \A c \in Call : \A u \in User : \A s \in Seat :
        role[n] # "leader" =>
            LET p == propose(n, ReserveCmd("s1", s, u, c))
            IN /\ p.raised
               /\ p.log = log[n] /\ last_index(p.log) = last_index(log[n])
               /\ p.index = 0
               /\ p.msgs = {}

\* C19 witness: a call was refused by a node that had led, whose log holds an
\* entry and on which the Future of an earlier proposal is pending
C19_Witness ==
    \E c \in Call :
        /\ calls[c].result = "not_leader"
        /\ role[calls[c].node] # "leader"
        /\ last_index(log[calls[c].node]) >= 1
        /\ proposals(calls[c].node) # {}
        /\ propose(calls[c].node, ReserveCmd("s1", calls[c].seat, calls[c].user, c)).raised

\* the reservation record the state machine st holds for the seat; NoRecord when
\* the show is unknown or the seat was never reserved
ReservationRecord(st, sh, s) == IF st[sh].exists THEN st[sh].seats[s] ELSE NoRecord

\* C20: on every node, once the state machine holds a reserved record for a
\* (show, seat), every step leaves that record reserved with the same user_id and
\* booking_id, whatever BookSeat and AddShow commands are applied.
C20_ReservationsPermanent ==
    [][\A n \in Node : \A sh \in ShowId : \A s \in Seat :
          ReservationRecord(shows[n], sh, s).reserved
              => ReservationRecord(shows'[n], sh, s) = ReservationRecord(shows[n], sh, s)]_vars

\* C20 witness: a node applied a reserve command for seat 2 of a show and then
\* an add_show command that gives the show one seat, and holds the record of
\* the reservation
C20_Witness ==
    \E n \in Node : \E sh \in ShowId :
        /\ last_applied[n] = 2
        /\ IsReserve(log[n], 1, sh, 2)
        /\ log[n][2].cmd = AddShowCmd(sh, 1, 2 * PriceCents)
        /\ shows[n][sh].total_seats = 1
        /\ ReservationRecord(shows[n], sh, 2).reserved
        /\ ReservationRecord(shows[n], sh, 2).user_id = log[n][1].cmd.user_id

InvalidSessionAddShow(c) ==
    calls[c].kind = "add_show" /\ calls[c].st = "done" /\ calls[c].user = ""

\* C22: an AddShow call whose session token is invalid is answered with
\* UNAUTHENTICATED; PERMISSION_DENIED is for a valid session of a user who is not
\* the administrator.
C22_InvalidSessionUnauthenticated ==
    \A c \in Call :
        InvalidSessionAddShow(c) =>
            StatusCode(calls[c].kind, calls[c].result) = "UNAUTHENTICATED"

\* a BookSeat call that was charged and whose proposal ran into the deadline of
\* RaftNode.propose
ChargedTimedOut(c) ==
    /\ calls[c].kind = "book" /\ calls[c].st = "done"
    /\ calls[c].payment = "COMPLETED"
    /\ calls[c].result = "timeout"

\* C23: a charged booking whose proposal itself timed out is answered with the
\* Internal error (status INTERNAL), not with the answer of a taken seat.
C23_TimeoutReportsInternal ==
    \A c \in Call :
        ChargedTimedOut(c) => StatusCode(calls[c].kind, calls[c].result) = "INTERNAL"

\* the pages a client received, one after the other
RECURSIVE Concat(_)
Concat(pages) == IF pages = << >> THEN << >> ELSE Head(pages) \o Concat(Tail(pages))

\* C24: paging through ListSeats from token 0 with a page size of at least 1
\* returns the seats 1..total_seats of an existing show once each, in increasing
\* order, at most page_size per response, and ends with token 0 after finitely many
\* requests; for an unknown show the one response is empty with token 0.
C24_PaginationComplete ==
    \A c \in Call :
        calls[c].kind = "list" =>
            LET show == shows[calls[c].node][calls[c].show]
                got == Concat(calls[c].pages)
            IN IF ~show.exists
               THEN got = << >> /\ calls[c].token = 0 /\ calls[c].st = "done"
                    /\ Len(calls[c].pages) = 1
               ELSE /\ got = [i \in 1..Len(got) |-> i]
                    /\ \A k \in 1..Len(calls[c].pages) :
                          /\ Len(calls[c].pages[k]) <= calls[c].page_size
                          /\ Len(calls[c].pages[k]) >= 1
                    /\ Len(calls[c].pages) <= show.total_seats
                    /\ calls[c].st = "paging" =>
                          (calls[c].token = Len(got) /\ Len(got) < show.total_seats)
                    /\ calls[c].st = "done" =>
                          (calls[c].token = 0 /\ Len(got) = show.total_seats)

\* a client got the five seats of a show in three pages of at most two, and
\* another the empty answer for an unknown show
C24_Witness ==
    /\ calls[1].kind = "list" /\ calls[1].st = "done" /\ calls[1].page_size = 2
    /\ calls[1].pages = << <<1, 2>>, <<3, 4>>, <<5>> >>
    /\ calls[2].kind = "list" /\ calls[2].st = "done"
    /\ ~shows[calls[2].node][calls[2].show].exists

\* C25: log matching: if the logs of two nodes hold an entry of the same index and
\* the same term, the two entries carry the same command and the two logs are
\* identical at every preceding index.
C25_LogMatching ==
    \A a, b \in Node : \A i \in 1..MaxLog :
        (HasEntry(log[a], i) /\ HasEntry(log[b], i) /\ log[a][i].term = log[b][i].term)
            => /\ log[a][i].cmd = log[b][i].cmd
               /\ \A j \in 1..(i - 1) :
                     /\ HasEntry(log[a], j) <=> HasEntry(log[b], j)
                     /\ HasEntry(log[a], j) => log[a][j] = log[b][j]

\* two nodes hold the same entry at index 2, which the second leader wrote, after
\* the same entry of the first leader at index 1
C25_Witness ==
    \E a, b \in Node :
        /\ a # b
        /\ HasEntry(log[a], 2) /\ HasEntry(log[b], 2)
        /\ log[a][2].term = log[b][2].term
        /\ HasEntry(log[a], 1) /\ log[a][1].term < log[a][2].term

\* the commit index of the commit rule: the largest N above ci that a majority
\* (the leader and the peers of mi with match_index >= N) stores and whose entry
\* has the leader's term; ci when there is none
LargestCommittable(ci, l, mi, term) ==
    LET S == {N \in (ci + 1)..last_index(l) :
                /\ 1 + Cardinality({p \in DOMAIN mi : mi[p] >= N}) >= majority
                /\ HasEntry(l, N) /\ l[N].term = term}
    IN IF S = {} THEN ci ELSE Max(S)

\* the step is _call_append_entries of a leader taking the successful response m
\* to a request that carried entries: the leader evaluates commitment
EvaluatesCommit(m) ==
    /\ m.type = "AER" /\ m \notin msgs' /\ alive' = alive /\ alive[m.to]
    /\ m.term <= current_term[m.to] /\ role[m.to] = "leader"
    /\ m.success /\ m.nentries > 0

\* C26: whenever the leader evaluates commitment it sets commit_index to the
\* largest N above it that a majority stores and whose entry has the leader's
\* term, so an entry of an earlier term below N is committed with it.
C26_CommitRule ==
    [][\A m \in msgs :
          EvaluatesCommit(m) =>
              commit_index'[m.to] =
                  LargestCommittable(commit_index[m.to], log[m.to],
                                     PeerMatch(m.to, match_index'[m.to]),
                                     current_term[m.to])]_vars

\* the step is handle_append_entries taking the request m, which passes the term
\* and the prev_log tests and has an entry at an index where the log of the
\* follower holds an entry of another term
HandlesConflict(m) ==
    /\ m.type = "AE" /\ m \notin msgs' /\ alive' = alive /\ alive[m.to]
    /\ m.term >= current_term[m.to]
    /\ ~prev_log_mismatch(log[m.to], m.prev_log_index, m.prev_log_term)
    /\ \E k \in 1..Len(m.entries) :
          /\ HasEntry(log[m.to], m.entries[k].index)
          /\ log[m.to][m.entries[k].index].term # m.entries[k].term

\* C27: a follower that finds an entry of the request at the index of a local
\* entry of another term deletes that entry and those after it, appends the
\* entries of the request and answers success: after the call its log agrees with
\* the request at every index of the request and ends with its last entry.
C27_ConflictResolved ==
    [][\A m \in msgs :
          HandlesConflict(m) =>
              /\ \A k \in 1..Len(m.entries) :
                    /\ HasEntry(log'[m.to], m.entries[k].index)
                    /\ log'[m.to][m.entries[k].index] =
                          [term |-> m.entries[k].term, cmd |-> m.entries[k].cmd]
              /\ last_index(log'[m.to]) = m.entries[Len(m.entries)].index
              /\ \E r \in msgs' \ msgs :
                    r.type = "AER" /\ r.from = m.to /\ r.to = m.from /\ r.success]_vars

\* the step is handle_request_vote on node m answering the request of candidate n
AnswersRequestVote(n, m) == n # m /\ rv[n][m].st = "wait" /\ rv'[n][m].st = "resp"

\* C28: a RequestVote of a lower term is rejected and changes nothing on the
\* receiver; otherwise the receiver adopts a higher term (becoming follower with
\* no vote) and grants exactly if it has no vote or one for this candidate and
\* the candidate's last term is higher than its own, or equal with a last index
\* at least its own; voted_for is written only on a grant.
C28_RequestVoteRule ==
    [][\A n, m \in Node :
          AnswersRequestVote(n, m) =>
              LET req == election[n]
                  last_log_index == last_index(log[m])
                  last_log_term == TermAt(log[m], last_log_index)
                  cleared == IF req.term > current_term[m] THEN 0 ELSE voted_for[m]
                  ok == /\ cleared = 0 \/ cleared = n
                        /\ \/ req.last_log_term > last_log_term
                           \/ /\ req.last_log_term = last_log_term
                              /\ req.last_log_index >= last_log_index
              IN IF req.term < current_term[m]
                 THEN /\ ~rv'[n][m].granted
                      /\ current_term'[m] = current_term[m]
                      /\ voted_for'[m] = voted_for[m]
                      /\ role'[m] = role[m]
                      /\ log'[m] = log[m] /\ commit_index'[m] = commit_index[m]
                 ELSE /\ rv'[n][m].granted = ok
                      /\ current_term'[m] = req.term
                      /\ req.term > current_term[m] => role'[m] = "follower"
                      /\ req.term = current_term[m] => role'[m] = role[m]
                      /\ voted_for'[m] = IF ok THEN n ELSE cleared]_vars

\* a candidate was refused by a node that had no vote in the term and a longer
\* log, and was granted the vote of the other node
C28_Witness ==
    \E n, m, p \in Node :
        /\ rv[n][m].st = "resp" /\ ~rv[n][m].granted
        /\ rv[n][m].term = election[n].term
        /\ voted_for[m] = 0 /\ last_index(log[m]) > election[n].last_log_index
        /\ rv[n][p].st = "resp" /\ rv[n][p].granted

\* the votes a node recorded in one term, its own candidacy included, name one
\* candidate
VotesAgree ==
    \A v, w \in voted : (v[1] = w[1] /\ v[2] = w[2]) => v[3] = w[3]

\* C29: in every term a node records a vote for at most one candidate (itself
\* when it starts an election, or the candidate it granted); voted_for passes
\* from one candidate to another, or back to none, only with an increase of
\* current_term, and current_term never decreases.
C29_OneVotePerTerm ==
    /\ []VotesAgree
    /\ [][\A n \in Node :
            /\ current_term'[n] >= current_term[n]
            /\ (voted_for[n] # 0 /\ voted_for'[n] # voted_for[n])
                  => current_term'[n] > current_term[n]]_vars

\* a node voted for one candidate in a term and for another in the next
C29_Witness ==
    \E v, w \in voted :
        /\ v[1] = w[1] /\ v[1] # v[3] /\ v[1] # w[3]
        /\ v[2] < w[2] /\ v[3] # w[3]
        /\ voted_for[v[1]] = w[3] /\ current_term[v[1]] = w[2]

\* C30: commit_index never decreases on any node, whatever the step: the commit
\* evaluation of a leader, AppendEntries with entries or without, requests of a
\* stale or new leader with a lower leader_commit, and role changes.
C30_CommitIndexMonotone ==
    [][\A n \in Node : commit_index'[n] >= commit_index[n]]_vars

\* a node that knows index 1 committed has answered the request of a leader whose
\* commit index is lower
C30_Witness ==
    \E n, p \in Node :
        /\ n # p /\ commit_index[n] >= 1
        /\ role[p] = "leader" /\ commit_index[p] < commit_index[n]
        /\ \E r \in msgs :
              /\ r.type = "AER" /\ r.from = n /\ r.to = p
              /\ r.success /\ r.term = current_term[p]

\* the seat numbers, user and booking ids of the reserve commands tried on a state
ReserveSeatId == 0..(TotalSeats + 1)

\* _reserve_seat passes its three tests on state st
Reservable(st, sh, s) ==
    /\ st[sh].exists
    /\ s >= 1 /\ s <= st[sh].total_seats
    /\ ~(st[sh].seats[s].present /\ st[sh].seats[s].reserved)

\* C32: reserve(show, seat, user, booking) changes the state machine exactly if the
\* show exists, the seat is in 1..total_seats and the seat is not reserved; in
\* every other case the catalog and every seat record are unchanged, and applying
\* the same reserve once more changes nothing.
C32_ReserveConditional ==
    \A n \in Node : \A sh \in ShowId : \A s \in ReserveSeatId : \A u \in User : \A b \in Call :
        LET st == shows[n]
            after == apply(st, ReserveCmd(sh, s, u, b))
        IN /\ (after # st) <=> Reservable(st, sh, s)
           /\ Reservable(st, sh, s) =>
                 /\ after[sh].seats[s] =
                       [present |-> TRUE, reserved |-> TRUE, user_id |-> u, booking_id |-> b]
                 /\ \A sh2 \in ShowId : \A s2 \in Seat :
                       (sh2 # sh \/ s2 # s) => after[sh2].seats[s2] = st[sh2].seats[s2]
           /\ apply(after, ReserveCmd(sh, s, u, b)) = after

\* a node has applied the reservation of u1 for seat 1 and after it one of u2 for
\* the same seat, which changed nothing
C32_Witness ==
    /\ last_applied[2] = 2
    /\ log[2][1].cmd = ReserveCmd("s1", 1, "u1", 1)
    /\ log[2][2].cmd = ReserveCmd("s1", 1, "u2", 2)
    /\ shows[2]["s1"].exists
    /\ shows[2]["s1"].seats[1] =
          [present |-> TRUE, reserved |-> TRUE, user_id |-> "u1", booking_id |-> 1]

\* a BookSeat call that SeatManager.book_seat refused at its pre-check, before any
\* proposal: the seat was reserved, or not a seat of the show, when it was called
RefusedAtPreCheck(c) ==
    /\ calls[c].kind = "book" /\ calls[c].st = "done"
    /\ calls[c].result = "reserved_or_invalid"
    /\ calls[c].index = 0

\* C34: a BookSeat call for a seat that is reserved or does not exist in the local
\* state machine when it is called returns the answer of a taken seat without
\* calling the payment service.
C34_PreCheckBeforeCharge ==
    \A c \in Call : RefusedAtPreCheck(c) => calls[c].payment = "none"

\* C35: on every node, every seat number with a reservation record in the seat map
\* of a show lies in 1..total_seats of that show, also after add_show changed the
\* total_seats of the show, and query reports every reserved seat as existing and
\* reserved.
C35_SeatMapInRange ==
    \A n \in Node : \A sh \in ShowId : \A s \in Seat :
        (shows[n][sh].exists /\ shows[n][sh].seats[s].present) =>
            /\ s <= shows[n][sh].total_seats
            /\ shows[n][sh].seats[s].reserved =>
                  (query(shows[n], sh, s).exists /\ query(shows[n], sh, s).reserved)

\* the BookSeat calls for seat s of show s1 that returned success
Succeeded(s) ==
    {c \in Call : calls[c].kind = "book" /\ calls[c].show = "s1" /\ calls[c].seat = s
                  /\ calls[c].result = "success"}

\* C36: for every seat at most one BookSeat call ever returns success, also when
\* one user makes two concurrent calls for the seat, and a call returns success
\* only with the booking_id of the payment it was charged itself.
C36_OneSuccessPerSeat ==
    \A s \in Seat :
        /\ Cardinality(Succeeded(s)) <= 1
        /\ \A c \in Succeeded(s) : calls[c].booking_id = c

\* C37: no step removes an entry from the log of a node or changes its term or
\* command, whatever the node does (propose, AppendEntries of any leader,
\* RequestVote, an election, a step down); a log grows at last_index + 1 only.
C37_LogImmutable ==
    [][\A n \in Node :
          /\ \A i \in 1..MaxLog :
                HasEntry(log[n], i) => (HasEntry(log'[n], i) /\ log'[n][i] = log[n][i])
          /\ DOMAIN log'[n] = 1..last_index(log'[n])]_vars

\* a node that led and wrote an entry has stepped down, voted, taken the
\* AppendEntries of the next leader and still holds its entry, at an index where
\* the leader holds another
C37_Witness ==
    \E n, p \in Node :
        /\ n # p /\ alive[n] /\ role[n] = "follower" /\ role[p] = "leader"
        /\ current_term[n] = current_term[p]
        /\ HasEntry(log[n], 1) /\ HasEntry(log[p], 1)
        /\ log[n][1].term < log[p][1].term
        /\ \E r \in msgs : r.type = "AER" /\ r.from = n /\ r.to = p /\ r.nentries > 0

\* a BookSeat call whose propose ended with the TimeoutError of its deadline
TimedOutBooking(c) == calls[c].kind = "book" /\ calls[c].result = "timeout"

\* node n holds the entry of call c at the index propose gave it
HoldsEntryOf(n, c) ==
    /\ HasEntry(log[n], calls[c].index)
    /\ log[n][calls[c].index].cmd =
          ReserveCmd(calls[c].show, calls[c].seat, calls[c].user, c)

\* C33: after propose timed out, the entry it appended is still in the log of the
\* node it was called on, at its index with its term and command, and every node
\* that has applied the entry has the seat reserved in its state machine.
C33_TimedOutEntryStays ==
    \A c \in Call :
        TimedOutBooking(c) =>
            /\ HoldsEntryOf(calls[c].node, c)
            /\ \A n \in Node :
                  (HoldsEntryOf(n, c) /\ last_applied[n] >= calls[c].index) =>
                      shows[n][calls[c].show].seats[calls[c].seat].reserved

\* the booking of u1 timed out and its entry was committed afterwards: every node
\* has applied it and holds seat 1 for u1 with the booking id of the call
C33_Witness ==
    /\ TimedOutBooking(1) /\ calls[1].index = 1
    /\ \A n \in Node :
          /\ HoldsEntryOf(n, 1) /\ last_applied[n] >= 1
          /\ shows[n]["s1"].seats[1] =
                [present |-> TRUE, reserved |-> TRUE, user_id |-> "u1", booking_id |-> 1]

\* node n leads and the log of the live peer p is a strict prefix of its log
Lagging(n, p) ==
    /\ n # p /\ alive[n] /\ alive[p] /\ role[n] = "leader"
    /\ current_term[p] <= current_term[n]
    /\ last_index(log[p]) < last_index(log[n])
    /\ \A i \in 1..MaxLog : HasEntry(log[p], i) => log[p][i] = log[n][i]

\* C31: a follower whose log is a strict prefix of the leader's, because the
\* AppendEntries with the missing entries was lost, eventually receives them
\* from the heartbeats of the leader: it does not stay behind forever.
C31_HeartbeatCatchUp ==
    \A n, p \in Node : [](Lagging(n, p) => <>(~Lagging(n, p)))

\* the leader n is about to take a failure response of peer p given for log
\* inconsistency (the peer is in the term of the leader)
Rejected(n, p) ==
    /\ alive[n] /\ alive[p] /\ role[n] = "leader"
    /\ \E r \in msgs : /\ r.type = "AER" /\ r.from = p /\ r.to = n
                       /\ ~r.success /\ r.term = current_term[n]

\* the retries of n for p are over: p answered an AppendEntries with entries with
\* success, or n does not lead any more, or the retry itself ran into the RPC
\* timeout (no request with entries and no failure response is in flight)
RetryOver(n, p) ==
    \/ ~alive[n] \/ ~alive[p] \/ role[n] # "leader"
    \/ \E r \in msgs : /\ r.type = "AER" /\ r.from = p /\ r.to = n
                       /\ r.success /\ r.nentries > 0
    \/ /\ ~\E r \in msgs : r.type = "AER" /\ r.from = p /\ r.to = n /\ ~r.success
       /\ ~\E a \in msgs : a.type = "AE" /\ a.from = n /\ a.to = p /\ a.entries # << >>

\* C39: after a follower refused an AppendEntries for log inconsistency, the
\* decrement-and-retry of the leader ends with a successful AppendEntries after
\* finitely many failure responses and does not repeat forever; stated for the
\* leader node 2 retrying towards node 1, the node that led before it.
C39_RetryTerminates ==
    [](Rejected(2, 1) => <>RetryOver(2, 1))

\* the log of peer p holds the entries of the log of n up to index k
MatchesUpTo(n, p, k) ==
    \A i \in 1..k : /\ HasEntry(log[n], i) /\ HasEntry(log[p], i)
                    /\ log[p][i] = log[n][i]

\* C38: on a node that leads, the log of every peer p holds, at every index up to
\* match_index[p], the entry (term and command) the log of the leader holds
\* there, whenever and in whatever order the success responses arrived.
C38_MatchIndexSound ==
    \A n \in Node : \A p \in Peers(n) :
        (alive[n] /\ role[n] = "leader") => MatchesUpTo(n, p, match_index[n][p])

\* a node that leads again took the success response a peer gave to a request of
\* an earlier term of its leadership and is about to take that of another peer
C38_Witness ==
    \E n \in Node : \E r \in msgs :
        /\ alive[n] /\ role[n] = "leader"
        /\ r.type = "AER" /\ r.to = n /\ r.success /\ r.nentries >= 1
        /\ r.term < current_term[n] /\ <<r.term, n>> \in elected
        /\ match_index[n][r.from] < r.prev_log_index + r.nentries
        /\ \E q \in Peers(n) : q # r.from /\ match_index[n][q] >= 1

\* the state machine st2 reports every seat st reports reserved as reserved, with
\* the same user_id and booking_id, and a reserve by anyone else changes nothing
KeepsReservations(st, st2) ==
    \A sh \in ShowId : \A s \in Seat :
        LET q == query(st, sh, s)
        IN (q.exists /\ q.reserved) =>
              /\ query(st2, sh, s) = q
              /\ \A u \in User : \A b \in Call :
                    u # q.user_id => apply(st2, ReserveCmd(sh, s, u, b)) = st2

\* C40: when the process of a node starts again and reloads the snapshot its
\* state machine saved, every seat the node reported reserved is still reported
\* reserved with the same user_id and booking_id, and a reserve for that seat by
\* another user applied afterwards changes nothing.
C40_RestartKeepsReservations ==
    [][\A n \in Node : Restart(n) => KeepsReservations(shows[n], shows'[n])]_vars

====
